---- MODULE Spec2Model ----
(***************************************************************************)
(* A model of mcuboot-rs: the NOR flash simulator (simflash), the argument *)
(* checks of the storage crate, the image parser and validator of the      *)
(* boot crate, and the upgrade status layout of the boot crate.             *)
(*                                                                         *)
(* Spec      : a small simulated flash driven by arbitrary erase, write    *)
(*             and read calls.                                             *)
(* SpecImage : a larger simulated flash onto which an image is placed,     *)
(*             optionally damaged in one bit, and then parsed and          *)
(*             validated.                                                  *)
(* SpecStatus: two slots, the status layout computed for the first of      *)
(*             them, and the read of its status tail.                      *)
(* SpecUpgrade: the status tails of two slots through the steps of an      *)
(*             upgrade and of a revert, decoded by the state table.        *)
(* SpecLpc   : one read of a partition of the LPC55S6x flash.              *)
(***************************************************************************)
EXTENDS Integers, Sequences, FiniteSets, TLC

VARIABLES
    read_size,        \* SimFlash.read_size
    write_size,       \* SimFlash.write_size
    erase_size,       \* SimFlash.erase_size
    data,             \* SimFlash.data, indexed 0 .. capacity-1
    page_state,       \* SimFlash.page_state, indexed 0 .. pages-1
    overflow_checks,  \* build profile: TRUE = arithmetic overflow panics (debug)
    usize_bits,       \* width of usize on the build's target: 32 or 64
    last,             \* the last call made on the flash and what it returned
    last_written,     \* history: per address, the byte of the last successful write (-1: none)
    calls,            \* number of erase/write calls that returned Ok so far (Spec)
    pc,               \* position of the image scenario (SpecImage)
    installed,        \* the image bytes handed to the flash (SpecImage)
    flipped,          \* offset of the byte a bit of which was flipped, or -1
    image,            \* result of Image::from_flash
    verdict,          \* result of Image::validate
    slots,            \* the two SlotInfo and what status_style, status_layout and read returned
    swap,             \* the status tails of the two slots during an upgrade, and the state decoded from them
    lpc,              \* an LpcPartition, the flash controller behind it and the read in progress
    iter,             \* what a TlvIter over the parsed image yielded, and get_image_base
    cell              \* the RefCell the image holds the flash in: the guards alive

vars == <<read_size, write_size, erase_size, data, page_state, overflow_checks,
          usize_bits, last, last_written, calls, pc, installed, flipped, image, verdict,
          slots, swap, lpc, iter, cell>>

flash_vars == <<read_size, write_size, erase_size, data, page_state>>
image_vars == <<pc, installed, flipped, image, verdict>>
build_vars == <<overflow_checks, usize_bits>>
ext_vars == <<swap, lpc, iter, cell>>

(***************************************************************************)
(* Bounds of the model.                                                    *)
(***************************************************************************)
MaxCalls == 4        \* Spec: at most this many successful erase/write calls in a run

(***************************************************************************)
(* Machine integers.  usize is modelled with 31 bits, the widest unsigned  *)
(* range the model checker's integers hold; every use below depends only   *)
(* on UsizeMax being far larger than any flash capacity.                   *)
(***************************************************************************)
UsizeMax == (1073741824 - 1) + 1073741824

Min(a, b) == IF a < b THEN a ELSE b

(***************************************************************************)
(* storage::Error and the outcomes of a call.  "Panic" is a Rust panic     *)
(* (failed arithmetic check or slice index): the program stops.            *)
(***************************************************************************)
StorageErrors == {"NotAligned", "OutOfBounds", "NotWritten", "NotErased"}

(***************************************************************************)
(* SimFlash.  A flash object f is the record of the struct's fields; data  *)
(* and page_state are sequences, Rust index i being element i + 1.         *)
(***************************************************************************)
self == [read_size |-> read_size, write_size |-> write_size,
         erase_size |-> erase_size, data |-> data, page_state |-> page_state]

capacity(f) == Len(f.data)

NumPages(f) == Len(f.page_state)

pages_per_sector(f) == f.erase_size \div f.write_size

\* SimFlash::new: all pages Unknown, all bytes 0xff.
new(rs, ws, es, sectors) ==
    [read_size |-> rs, write_size |-> ws, erase_size |-> es,
     data |-> [i \in 1 .. sectors * es |-> 255],
     page_state |-> [i \in 1 .. sectors * (es \div ws) |-> "Unknown"]]

page_of(f, offset) == offset \div f.write_size

\* pages(from, to) = page_of(from) .. page_of(to - 1) + 1, a half-open range
\* [lo, hi).  `to - 1` underflows for to = 0: with overflow checks this is a
\* panic; without, the subtraction wraps to UsizeMax, and the `+ 1` wraps as
\* well when page_of(UsizeMax) = UsizeMax (write_size = 1).
pages(f, from, to) ==
    IF to = 0
    THEN IF overflow_checks
         THEN [panic |-> TRUE, lo |-> 0, hi |-> 0]
         ELSE [panic |-> FALSE,
               lo |-> page_of(f, from),
               hi |-> IF page_of(f, UsizeMax) = UsizeMax THEN 0
                      ELSE page_of(f, UsizeMax) + 1]
    ELSE [panic |-> FALSE, lo |-> page_of(f, from), hi |-> page_of(f, to - 1) + 1]

\* The page indices of a range that exist in page_state.
InRange(f, r) == {p \in 0 .. NumPages(f) - 1 : r.lo <= p /\ p < r.hi}

\* A loop over range r indexes page_state out of bounds (a panic) once it
\* gets as far as index NumPages.
Overruns(f, r) == r.lo < r.hi /\ r.hi > NumPages(f)

(***************************************************************************)
(* storage: argument checks                                                *)
(***************************************************************************)
check_slice_align_first(f, align, offset, length) ==
    IF offset % align # 0 \/ length % align # 0 THEN "NotAligned"
    ELSE IF length > capacity(f) \/ offset > capacity(f) - length THEN "OutOfBounds"
    ELSE "Ok"

check_slice(f, align, offset, length) ==
    IF length > capacity(f) \/ offset > capacity(f) - length THEN "OutOfBounds"
    ELSE IF offset % align # 0 \/ length % align # 0 THEN "NotAligned"
    ELSE "Ok"

check_read(f, offset, length) == check_slice(f, f.read_size, offset, length)

check_write(f, offset, length) == check_slice(f, f.write_size, offset, length)

check_erase(f, from, to) ==
    IF from > to \/ to > capacity(f) THEN "OutOfBounds"
    ELSE IF from % f.erase_size # 0 \/ to % f.erase_size # 0 THEN "NotAligned"
    ELSE "Ok"

(***************************************************************************)
(* SimFlash: read, erase, write, install.  Each returns the result and the *)
(* flash as the call leaves it; read also returns the bytes copied out.    *)
(***************************************************************************)
SetPages(f, ps, st) ==
    [f EXCEPT !.page_state =
        [i \in 1 .. NumPages(f) |-> IF (i - 1) \in ps THEN st ELSE f.page_state[i]]]

\* read without the page-state scan.
read_unchecked(f, offset, len) ==
    LET c == check_read(f, offset, len)
    IN  IF c # "Ok" THEN [result |-> c, out |-> <<>>]
        ELSE [result |-> "Ok", out |-> [i \in 1 .. len |-> f.data[offset + i]]]

read(f, offset, len) ==
    LET c == check_read(f, offset, len)
        r == pages(f, offset, offset + len)
    IN  IF c # "Ok" THEN [result |-> c, out |-> <<>>]
        ELSE IF r.panic THEN [result |-> "Panic", out |-> <<>>]
        ELSE IF \E p \in InRange(f, r) : f.page_state[p + 1] # "Written"
             THEN [result |-> "NotWritten", out |-> <<>>]
        ELSE IF Overruns(f, r) THEN [result |-> "Panic", out |-> <<>>]
        ELSE [result |-> "Ok", out |-> [i \in 1 .. len |-> f.data[offset + i]]]

erase(f, from, to) ==
    LET c == check_erase(f, from, to)
        r == pages(f, from, to)
    IN  IF c # "Ok" THEN [result |-> c, f |-> f]
        ELSE IF r.panic THEN [result |-> "Panic", f |-> f]
        ELSE [result |-> IF Overruns(f, r) THEN "Panic" ELSE "Ok",
              f |-> SetPages(f, InRange(f, r), "Erased")]

\* write with one loop that marks each page as soon as it is found Erased.
write_single_loop(f, offset, bytes) ==
    LET len == Len(bytes)
        c == check_write(f, offset, len)
        r == pages(f, offset, offset + len)
        bad == {p \in InRange(f, r) : f.page_state[p + 1] # "Erased"}
        first == IF bad = {} THEN r.hi ELSE CHOOSE p \in bad : \A q \in bad : p <= q
    IN  IF c # "Ok" THEN [result |-> c, f |-> f]
        ELSE IF r.panic THEN [result |-> "Panic", f |-> f]
        ELSE IF bad # {}
             THEN [result |-> "NotErased",
                   f |-> SetPages(f, {p \in InRange(f, r) : p < first}, "Written")]
        ELSE IF Overruns(f, r) THEN [result |-> "Panic", f |-> f]
        ELSE [result |-> "Ok",
              f |-> [SetPages(f, InRange(f, r), "Written") EXCEPT !.data =
                        [i \in 1 .. capacity(f) |->
                            IF offset < i /\ i <= offset + len
                            THEN bytes[i - offset] ELSE f.data[i]]]]

write(f, offset, bytes) ==
    LET len == Len(bytes)
        c == check_write(f, offset, len)
        r == pages(f, offset, offset + len)
    IN  IF c # "Ok" THEN [result |-> c, f |-> f]
        ELSE IF r.panic THEN [result |-> "Panic", f |-> f]
        ELSE IF \E p \in InRange(f, r) : f.page_state[p + 1] # "Erased"
             THEN [result |-> "NotErased", f |-> f]
        ELSE IF Overruns(f, r) THEN [result |-> "Panic", f |-> f]
        ELSE [result |-> "Ok",
              f |-> [SetPages(f, InRange(f, r), "Written") EXCEPT !.data =
                        [i \in 1 .. capacity(f) |->
                            IF offset < i /\ i <= offset + len
                            THEN bytes[i - offset] ELSE f.data[i]]]]

\* The body of install's while loop, from position pos of bytes on.
RECURSIVE install_loop(_, _, _, _, _)
install_loop(f, bytes, offset, pos, last_erased) ==
    IF pos >= Len(bytes) THEN [result |-> "Ok", f |-> f]
    ELSE
      LET dev_pos == pos + offset
          dev_sector == dev_pos \div f.erase_size
          e == IF dev_sector # last_erased
               THEN erase(f, dev_sector * f.erase_size, dev_sector * f.erase_size + 1)
               ELSE [result |-> "Ok", f |-> f]
          len == Min(f.write_size, Len(bytes) - pos)
          buf == [i \in 1 .. f.write_size |-> IF i <= len THEN bytes[pos + i] ELSE 255]
          w == write(e.f, dev_pos, buf)
      IN  IF e.result # "Ok" THEN e
          ELSE IF w.result # "Ok" THEN w
          ELSE install_loop(w.f, bytes, offset, pos + f.write_size, dev_sector)

install(f, bytes, offset) ==
    IF offset % f.erase_size # 0 THEN [result |-> "Panic", f |-> f]
    ELSE install_loop(f, bytes, offset, 0, NumPages(f) \div pages_per_sector(f))

(***************************************************************************)
(* boot::image.  Structures are read from flash as raw little-endian       *)
(* bytes (AsMutRaw); b is the sequence of bytes read, off a Rust offset.   *)
(***************************************************************************)
U16(b, off) == b[off + 1] + 256 * b[off + 2]

\* IMAGE_MAGIC = 0x96f3b83d, compared as the four bytes of the u32 field.
IMAGE_MAGIC == <<61, 184, 243, 150>>

\* TLV_INFO_MAGIC = 0x6907
TLV_INFO_MAGIC == 26887

\* TLV_SHA256 = 0x10
TLV_SHA256 == 16

\* size_of::<ImageHeader>()
HEADER_SIZE == 32

\* size_of::<TlvInfo>() = size_of::<TlvEntry>()
TLV_ENTRY_SIZE == 4

\* Length of the buffer calculate_sha256 streams the image through.
HASH_BUFFER == 128

\* Size of a SHA-256 digest (Hash256).
HASH_SIZE == 32

\* ImageHeader as parsed from its 32 bytes.  img_size is a u32, kept as its
\* two 16-bit halves.
ImageHeader(b) ==
    [magic |-> SubSeq(b, 1, 4),
     hdr_size |-> U16(b, 8),
     img_size_lo |-> U16(b, 12),
     img_size_hi |-> U16(b, 14)]

TlvInfo(b) == [magic |-> U16(b, 0), len |-> U16(b, 2)]

TlvEntry(b) == [kind |-> U16(b, 0), len |-> U16(b, 2)]

\* usize::checked_add for operands the model can hold: -1 stands for None.
checked_add(a, b) == IF a > UsizeMax - b THEN -1 ELSE a + b

\* (img_size as usize).checked_add(hdr_size as usize).  A sum of 2^16 or
\* more lies beyond every modelled flash and is returned as UsizeMax; a sum of
\* 2^32 or more overflows a 32-bit usize (-1, None) and not a 64-bit one.
tlv_base_of(header) ==
    LET lo == header.img_size_lo + header.hdr_size
        hi == header.img_size_hi + (lo \div 65536)
    IN  IF hi >= 65536 THEN (IF usize_bits = 32 THEN -1 ELSE UsizeMax)
        ELSE IF hi > 0 THEN UsizeMax
        ELSE lo

\* Sha256 stands for SHA-256 as a 32-byte digest: byte k is the sum, modulo
\* 256, of the message bytes at positions k, k + 32, k + 64, ... (plus the
\* message length in byte 1).  Two messages that differ in one byte have
\* different digests, which is all the claims use of SHA-256.
RECURSIVE StrideSum(_, _)
StrideSum(m, i) == IF i > Len(m) THEN 0 ELSE m[i] + StrideSum(m, i + HASH_SIZE)

Sha256(m) ==
    [k \in 1 .. HASH_SIZE |->
        (StrideSum(m, k) + (IF k = 1 THEN Len(m) ELSE 0)) % 256]

\* A flash error reported as InvalidImage.
Flash_as_invalid(e) == [result |-> "InvalidImage", err |-> ""]

\* The outcome of a flash read as a boot::Error (From<storage::Error>).
Flash(e) == IF e = "Panic" THEN [result |-> "Panic", err |-> ""]
            ELSE [result |-> "Flash", err |-> e]

InvalidImage == [result |-> "InvalidImage", err |-> ""]

Okay == [result |-> "Ok", err |-> ""]

\* One entry of the log of reads an operation issued.
ReadLog(offset, len, r) == [offset |-> offset, len |-> len, result |-> r.result]

\* The while loop of from_flash over the TLV entry headers.
RECURSIVE from_flash_walk(_, _, _, _, _)
from_flash_walk(f, tlv_base, limit, pos, log) ==
    IF pos >= limit THEN [status |-> Okay, reads |-> log]
    ELSE LET r == read(f, tlv_base + pos, TLV_ENTRY_SIZE)
             log1 == Append(log, ReadLog(tlv_base + pos, TLV_ENTRY_SIZE, r))
         IN  IF r.result # "Ok" THEN [status |-> Flash(r.result), reads |-> log1]
             ELSE from_flash_walk(f, tlv_base, limit,
                                  pos + TLV_ENTRY_SIZE + TlvEntry(r.out).len, log1)

NoImage(status, log) ==
    [status |-> status, hdr_size |-> 0, tlv_base |-> 0, tlv_size |-> 0, reads |-> log]

\* from_flash without the check of the header magic.
from_flash_no_magic(f) ==
    LET r0 == read(f, 0, HEADER_SIZE)
        log0 == <<ReadLog(0, HEADER_SIZE, r0)>>
        header == ImageHeader(r0.out)
        tlv_base == tlv_base_of(header)
        r1 == read(f, tlv_base, TLV_ENTRY_SIZE)
        log1 == Append(log0, ReadLog(tlv_base, TLV_ENTRY_SIZE, r1))
        info == TlvInfo(r1.out)
        walk == from_flash_walk(f, tlv_base, info.len, TLV_ENTRY_SIZE, log1)
    IN  IF r0.result # "Ok" THEN NoImage(Flash(r0.result), log0)
        ELSE IF tlv_base = -1 THEN NoImage(InvalidImage, log0)
        ELSE IF r1.result # "Ok" THEN NoImage(Flash(r1.result), log1)
        ELSE IF info.magic # TLV_INFO_MAGIC THEN NoImage(InvalidImage, log1)
        ELSE IF walk.status.result # "Ok" THEN NoImage(walk.status, walk.reads)
        ELSE [status |-> Okay, hdr_size |-> header.hdr_size, tlv_base |-> tlv_base,
              tlv_size |-> info.len, reads |-> walk.reads]

from_flash(f) ==
    LET r0 == read(f, 0, HEADER_SIZE)
        log0 == <<ReadLog(0, HEADER_SIZE, r0)>>
        header == ImageHeader(r0.out)
        tlv_base == tlv_base_of(header)
        r1 == read(f, tlv_base, TLV_ENTRY_SIZE)
        log1 == Append(log0, ReadLog(tlv_base, TLV_ENTRY_SIZE, r1))
        info == TlvInfo(r1.out)
        walk == from_flash_walk(f, tlv_base, info.len, TLV_ENTRY_SIZE, log1)
    IN  IF r0.result # "Ok" THEN NoImage(Flash(r0.result), log0)
        ELSE IF header.magic # IMAGE_MAGIC THEN NoImage(InvalidImage, log0)
        ELSE IF tlv_base = -1 THEN NoImage(InvalidImage, log0)
        ELSE IF r1.result # "Ok" THEN NoImage(Flash(r1.result), log1)
        ELSE IF info.magic # TLV_INFO_MAGIC THEN NoImage(InvalidImage, log1)
        ELSE IF walk.status.result # "Ok" THEN NoImage(walk.status, walk.reads)
        ELSE [status |-> Okay, hdr_size |-> header.hdr_size, tlv_base |-> tlv_base,
              tlv_size |-> info.len, reads |-> walk.reads]

full_image_size(img) == img.tlv_base + img.tlv_size

\* Image::tlvs: the iterator {pos, limit}, or an error.
tlvs(f, img, log) ==
    LET r == read(f, img.tlv_base, TLV_ENTRY_SIZE)
        log1 == Append(log, ReadLog(img.tlv_base, TLV_ENTRY_SIZE, r))
        info == TlvInfo(r.out)
    IN  IF r.result # "Ok" THEN [status |-> Flash(r.result), reads |-> log1]
        ELSE IF info.magic # TLV_INFO_MAGIC THEN [status |-> InvalidImage, reads |-> log1]
        ELSE [status |-> Okay, pos |-> TLV_ENTRY_SIZE, limit |-> info.len, reads |-> log1]

\* TlvIter::next.  The iterator is (it_pos, it_limit); on Some the iterator's
\* new pos is next_pos.  self.pos is set to data_pos + entry.len, where
\* data_pos is a flash offset (tlv_base + self.pos + 4).
TlvIter_next(f, img, it_pos, it_limit, log) ==
    LET pos == checked_add(img.tlv_base, it_pos)
        r == read(f, pos, TLV_ENTRY_SIZE)
        log1 == Append(log, ReadLog(pos, TLV_ENTRY_SIZE, r))
        entry == TlvEntry(r.out)
        data_pos == checked_add(pos, TLV_ENTRY_SIZE)
        next_pos == checked_add(data_pos, entry.len)
    IN  IF it_pos >= it_limit THEN [tag |-> "None", reads |-> log]
        ELSE IF pos = -1 THEN [tag |-> "Err", status |-> InvalidImage, reads |-> log]
        ELSE IF r.result # "Ok"
             THEN [tag |-> "Err", status |-> Flash(r.result), reads |-> log1]
        ELSE IF data_pos = -1 \/ next_pos = -1
             THEN [tag |-> "Err", status |-> InvalidImage, reads |-> log1]
        ELSE [tag |-> "Some", kind |-> entry.kind, pos |-> data_pos,
              len |-> entry.len, next_pos |-> next_pos, reads |-> log1]

\* TlvIterEntry::read_data into a buffer of n bytes.
read_data(f, entry, n, log) ==
    LET r == read(f, entry.pos, n)
        log1 == Append(log, ReadLog(entry.pos, n, r))
    IN  IF n # entry.len THEN [status |-> InvalidImage, out |-> <<>>, reads |-> log]
        ELSE IF r.result # "Ok"
             THEN [status |-> Flash(r.result), out |-> <<>>, reads |-> log1]
        ELSE [status |-> Okay, out |-> r.out, reads |-> log1]

\* calculate_sha256: the image streamed through the hasher in chunks of at
\* most HASH_BUFFER bytes; msg is what the hasher has been fed so far.
RECURSIVE sha256_loop(_, _, _, _, _)
sha256_loop(f, img, pos, msg, log) ==
    IF pos >= img.tlv_base
    THEN [status |-> Okay, hash |-> Sha256(msg), reads |-> log]
    ELSE LET todo == Min(img.tlv_base - pos, HASH_BUFFER)
             r == read(f, pos, todo)
             log1 == Append(log, ReadLog(pos, todo, r))
         IN  IF r.result # "Ok"
             THEN [status |-> Flash(r.result), hash |-> <<>>, reads |-> log1]
             ELSE sha256_loop(f, img, pos + todo, msg \o r.out, log1)

calculate_sha256(f, img, log) == sha256_loop(f, img, 0, <<>>, log)

\* The loop of validate over the iterator (it_pos, it_limit).  cmp collects,
\* per hash comparison made, the payload position and the two digests.
RECURSIVE validate_loop(_, _, _, _, _, _, _)

\* validate's loop comparing only the first half of the two digests.
validate_loop_half_compare(f, img, it_pos, it_limit, seen_sha, log, cmp) ==
    LET n == TlvIter_next(f, img, it_pos, it_limit, log)
        rd == read_data(f, n, HASH_SIZE, n.reads)
        h == calculate_sha256(f, img, rd.reads)
        cmp1 == Append(cmp, [pos |-> n.pos, hash |-> rd.out, image_hash |-> h.hash])
    IN  IF n.tag = "None"
        THEN [status |-> IF seen_sha THEN Okay ELSE InvalidImage,
              reads |-> n.reads, cmp |-> cmp]
        ELSE IF n.tag = "Err" THEN [status |-> n.status, reads |-> n.reads, cmp |-> cmp]
        ELSE IF n.kind # TLV_SHA256
             THEN [status |-> InvalidImage, reads |-> n.reads, cmp |-> cmp]
        ELSE IF seen_sha THEN [status |-> InvalidImage, reads |-> n.reads, cmp |-> cmp]
        ELSE IF rd.status.result # "Ok"
             THEN [status |-> rd.status, reads |-> rd.reads, cmp |-> cmp]
        ELSE IF h.status.result # "Ok"
             THEN [status |-> h.status, reads |-> h.reads, cmp |-> cmp]
        ELSE IF SubSeq(rd.out, 1, 16) # SubSeq(h.hash, 1, 16)
             THEN [status |-> InvalidImage, reads |-> h.reads, cmp |-> cmp1]
        ELSE validate_loop(f, img, n.next_pos, it_limit, TRUE, h.reads, cmp1)

validate_loop(f, img, it_pos, it_limit, seen_sha, log, cmp) ==
    LET n == TlvIter_next(f, img, it_pos, it_limit, log)
        rd == read_data(f, n, HASH_SIZE, n.reads)
        h == calculate_sha256(f, img, rd.reads)
        cmp1 == Append(cmp, [pos |-> n.pos, hash |-> rd.out, image_hash |-> h.hash])
    IN  IF n.tag = "None"
        THEN [status |-> IF seen_sha THEN Okay ELSE InvalidImage,
              reads |-> n.reads, cmp |-> cmp]
        ELSE IF n.tag = "Err" THEN [status |-> n.status, reads |-> n.reads, cmp |-> cmp]
        ELSE IF n.kind # TLV_SHA256
             THEN [status |-> InvalidImage, reads |-> n.reads, cmp |-> cmp]
        ELSE IF seen_sha THEN [status |-> InvalidImage, reads |-> n.reads, cmp |-> cmp]
        ELSE IF rd.status.result # "Ok"
             THEN [status |-> rd.status, reads |-> rd.reads, cmp |-> cmp]
        ELSE IF h.status.result # "Ok"
             THEN [status |-> h.status, reads |-> h.reads, cmp |-> cmp]
        ELSE IF rd.out # h.hash
             THEN [status |-> InvalidImage, reads |-> h.reads, cmp |-> cmp1]
        ELSE validate_loop(f, img, n.next_pos, it_limit, TRUE, h.reads, cmp1)

\* validate with seen_sha starting out true.
validate_seen(f, img) ==
    LET t == tlvs(f, img, <<>>)
    IN  IF t.status.result # "Ok" THEN [status |-> t.status, reads |-> t.reads, cmp |-> <<>>]
        ELSE validate_loop(f, img, t.pos, t.limit, TRUE, t.reads, <<>>)

validate(f, img) ==
    LET t == tlvs(f, img, <<>>)
    IN  IF t.status.result # "Ok" THEN [status |-> t.status, reads |-> t.reads, cmp |-> <<>>]
        ELSE validate_loop(f, img, t.pos, t.limit, FALSE, t.reads, <<>>)

\* for elt in self.tlvs()? { .. }: the entries TlvIter yields until it ends
\* (None) or yields an error.
RECURSIVE TlvIter_run(_, _, _, _, _, _)
TlvIter_run(f, img, it_pos, it_limit, log, entries) ==
    LET n == TlvIter_next(f, img, it_pos, it_limit, log)
    IN  IF n.tag = "None"
        THEN [tag |-> "None", status |-> Okay, entries |-> entries, reads |-> n.reads,
              base |-> -1]
        ELSE IF n.tag = "Err"
             THEN [tag |-> "Err", status |-> n.status, entries |-> entries,
                   reads |-> n.reads, base |-> -1]
        ELSE TlvIter_run(f, img, n.next_pos, it_limit, n.reads,
                         Append(entries, [kind |-> n.kind, len |-> n.len, pos |-> n.pos]))

TlvIter_collect(f, img) ==
    LET t == tlvs(f, img, <<>>)
    IN  IF t.status.result # "Ok"
        THEN [tag |-> "Err", status |-> t.status, entries |-> <<>>, reads |-> t.reads,
              base |-> -1]
        ELSE TlvIter_run(f, img, t.pos, t.limit, t.reads, <<>>)

(***************************************************************************)
(* The RefCell<F> an Image holds the flash in.  Its state is the number of *)
(* RefMut and Ref guards alive; failed records a borrow that the cell      *)
(* refused (a panic), peak the largest number of guards wanted at once,    *)
(* and borrows the number of guards handed out.                            *)
(***************************************************************************)
NoBorrow == [writers |-> 0, readers |-> 0, failed |-> FALSE, peak |-> 0, borrows |-> 0]

\* RefCell::borrow_mut
borrow_mut(c) ==
    LET wanted == c.writers + c.readers + 1
    IN  IF wanted > 1 THEN [c EXCEPT !.failed = TRUE, !.peak = IF @ > wanted THEN @ ELSE wanted]
        ELSE [c EXCEPT !.writers = 1, !.peak = IF @ > wanted THEN @ ELSE wanted, !.borrows = @ + 1]

\* RefCell::borrow
borrow(c) ==
    LET wanted == c.writers + c.readers + 1
    IN  IF c.writers > 0 THEN [c EXCEPT !.failed = TRUE, !.peak = IF @ > wanted THEN @ ELSE wanted]
        ELSE [c EXCEPT !.readers = @ + 1, !.peak = IF @ > wanted THEN @ ELSE wanted, !.borrows = @ + 1]

\* A RefMut that stays alive behind the statement that took it.
drop_RefMut_kept(c) == c

\* The RefMut of flash.borrow_mut().read(..) is a temporary: it is dropped
\* at the end of the statement, also when the statement returns through `?`
\* or iter_try!.
drop_RefMut(c) == IF c.writers > 0 THEN [c EXCEPT !.writers = @ - 1] ELSE c

\* The Ref of flash.borrow().get_base(), a temporary as well.
drop_Ref(c) == IF c.readers > 0 THEN [c EXCEPT !.readers = @ - 1] ELSE c

\* The reads of log, each issued as flash.borrow_mut().read(..) by the
\* function that made it; SimFlash::read itself takes no borrow.
RECURSIVE borrowed_reads(_, _)
borrowed_reads(c, log) ==
    IF log = <<>> THEN c
    ELSE borrowed_reads(drop_RefMut(borrow_mut(c)), Tail(log))

(***************************************************************************)
(* Images, as GenBuilder::build obtains them from the signing tool: a      *)
(* header, zero padding up to hdr_size, the body, and the TLV region.      *)
(***************************************************************************)
Le16(n) == <<n % 256, n \div 256>>

Repeat(v, n) == [i \in 1 .. n |-> v]

RECURSIVE Concat(_)
Concat(ss) == IF ss = <<>> THEN <<>> ELSE Head(ss) \o Concat(Tail(ss))

\* The hashed part [0, tlv_base): header, padding, body (a pseudo-random fill).
Protected(hdr_size, img_size) ==
    IMAGE_MAGIC \o Repeat(0, 4) \o Le16(hdr_size) \o Le16(0)
      \o Le16(img_size) \o Le16(0) \o Repeat(0, 4)
      \o <<0, 1, 0, 0, 0, 0, 0, 0>> \o Repeat(0, 4)
      \o Repeat(0, hdr_size - HEADER_SIZE)
      \o [i \in 1 .. img_size |-> (37 * i + 11) % 256]

\* An entry of kind "sha" carries the digest of the protected part; an entry
\* of kind "other" is a TLV of an unrecognised kind (0x20).
TlvBytes(kind, protected) ==
    IF kind = "sha"
    THEN Le16(TLV_SHA256) \o Le16(HASH_SIZE) \o Sha256(protected)
    ELSE Le16(32) \o Le16(4) \o <<1, 2, 3, 4>>

MakeImage(hdr_size, img_size, shape) ==
    LET protected == Protected(hdr_size, img_size)
        entries == Concat([k \in 1 .. Len(shape) |-> TlvBytes(shape[k], protected)])
    IN  protected \o Le16(TLV_INFO_MAGIC) \o Le16(TLV_ENTRY_SIZE + Len(entries)) \o entries

\* (hdr_size, img_size) of the images of SpecImage: an empty body, a short
\* one, and one that takes calculate_sha256 more than one chunk.
ImageSizes == {<<32, 0>>, <<32, 8>>, <<40, 96>>}

\* The TLV regions of the images of SpecImage; <<"sha">> is what the signing
\* tool produces.
TlvShapes == {<<>>, <<"sha">>, <<"sha", "sha">>, <<"sha", "other">>,
              <<"other", "sha">>, <<"other">>}

Images == {MakeImage(z[1], z[2], shape) : z \in ImageSizes, shape \in TlvShapes}

SignedImages == {MakeImage(z[1], z[2], <<"sha">>) : z \in ImageSizes}

\* A header with a valid magic and img_size = u32::MAX (both halves 0xffff).
HugeHeader(hdr_size) ==
    IMAGE_MAGIC \o Repeat(0, 4) \o Le16(hdr_size) \o Le16(0)
      \o Le16(65535) \o Le16(65535) \o Repeat(0, 4)
      \o <<0, 1, 0, 0, 0, 0, 0, 0>> \o Repeat(0, 4)

HugeImages == {HugeHeader(h) : h \in {0, HEADER_SIZE}}

\* An image cut off behind the header of its SHA-256 entry: the payload the
\* entry announces lies in flash that was never written.
TruncatedImage ==
    Protected(HEADER_SIZE, 8) \o Le16(TLV_INFO_MAGIC)
      \o Le16(2 * TLV_ENTRY_SIZE + HASH_SIZE) \o Le16(TLV_SHA256) \o Le16(HASH_SIZE)

\* Images that no signing tool produces, written to the flash by hand.
CraftedImages == HugeImages \cup {TruncatedImage}

\* (read_size, write_size, erase_size, sectors) of the devices of SpecImage:
\* the predefined styles, scaled down to 256 bytes: few large sectors
\* (STM32F), small uniform sectors (K64), write unit = erase unit (LPC).
Styles == {<<1, 8, 128, 2>>, <<1, 8, 32, 8>>, <<1, 16, 16, 16>>}

(***************************************************************************)
(* boot::status.  A SlotInfo is the record of the struct's four fields; a  *)
(* StatusLayout is the record of the struct's fields with flags = <<>> for *)
(* None, preceded by result = "Ok"; result = "Panic" is a failed assert,   *)
(* unwrap or arithmetic check.                                             *)
(***************************************************************************)
\* size_of::<StatusTail>()
STATUS_TAIL_SIZE == 48

MAX_IMAGE == 1048576

SMALLEST_PAGED_SECTOR == 512

SMALLEST_SECTOR == 4096

div_ceil(a, b) == (a + b - 1) \div b

PAGED_HASHES == div_ceil(MAX_IMAGE, SMALLEST_PAGED_SECTOR)

OVERWRITE_HASHES == div_ceil(MAX_IMAGE, SMALLEST_SECTOR)

MAX_PAGED_HASH_SECTORS == div_ceil(PAGED_HASHES + PAGED_HASHES, SMALLEST_PAGED_SECTOR)

MAX_OVERWRITE_HASH_SECTORS == div_ceil(OVERWRITE_HASHES + OVERWRITE_HASHES, SMALLEST_SECTOR)

\* The capacity of HashVec.
MAX_HASH_SECTORS ==
    IF MAX_PAGED_HASH_SECTORS > MAX_OVERWRITE_HASH_SECTORS
    THEN MAX_PAGED_HASH_SECTORS ELSE MAX_OVERWRITE_HASH_SECTORS

Max(a, b) == IF a > b THEN a ELSE b

is_power_of_two(n) == \E k \in 0 .. 30 : n = 2 ^ k

SlotInfo(ws, es, cap, size) ==
    [write_size |-> ws, erase_size |-> es, capacity |-> cap, image_size |-> size]

from_data(image_size, f) == SlotInfo(f.write_size, f.erase_size, capacity(f), image_size)

\* status_style with the two tests in the other order.
status_style_erase_first(slot) ==
    IF slot.erase_size <= 4096 THEN "Paged"
    ELSE IF slot.write_size <= 32 THEN "OverWrite"
    ELSE "Panic"

status_style(slot) ==
    IF slot.write_size <= 32 THEN "OverWrite"
    ELSE IF slot.erase_size <= 4096 THEN "Paged"
    ELSE "Panic"

\* pos & !(align - 1), for align a power of two.
round_down(pos, align) == pos - (pos % align)

\* Flag slots that are not rounded down to the write unit and lie above pos.
flag_slots_above(pos, ws) == <<pos + ws, pos + 2 * ws, pos + 3 * ws>>

\* Flag slots one write unit apart below pos, pos not rounded down.
flag_slots_unaligned(pos, ws) == <<pos - ws, pos - 2 * ws, pos - 3 * ws>>

\* The three flag slots of the OverWrite style below pos: move_done,
\* copy_done, image_ok.  An entry below 0 is a subtraction that underflowed.
flag_slots(pos, ws) ==
    LET top == round_down(pos, ws)
    IN  <<top - ws, top - 2 * ws, top - 3 * ws>>

\* inline_hashes without the cap at total_image_sectors.
inline_hashes_uncapped(end_hashes, base, total_image_sectors) == (end_hashes - base) \div 4

inline_hashes_of(end_hashes, base, total_image_sectors) ==
    Min((end_hashes - base) \div 4, total_image_sectors)

\* All remaining hashes put into one page entry, even when none remain.
hash_pages_one_entry(esize, count, hash_pages) ==
    [panic |-> FALSE, hash_pages |-> Append(hash_pages, count)]

RECURSIVE hash_pages_loop(_, _, _)

\* while count > 0 { hash_pages.push(min(erase_size / 4, count)).unwrap(); .. }
\* push fails, and unwrap panics, once the vector holds MAX_HASH_SECTORS.
hash_pages_loop(esize, count, hash_pages) ==
    IF count <= 0 THEN [panic |-> FALSE, hash_pages |-> hash_pages]
    ELSE IF Len(hash_pages) = MAX_HASH_SECTORS
         THEN [panic |-> TRUE, hash_pages |-> hash_pages]
    ELSE LET n == Min(esize \div 4, count)
         IN  hash_pages_loop(esize, count - n, Append(hash_pages, n))

NoLayout(result) == [result |-> result]

\* SlotInfo::status_layout.  A subtraction that underflows panics with
\* overflow checks; without them it wraps to a value near the top of usize,
\* outside the integers of the model: the result is then "Wrapped".
status_layout(slot, upgrade) ==
    LET esize == Max(slot.erase_size, upgrade.erase_size)
        image_sectors == <<div_ceil(slot.image_size, esize),
                           div_ceil(upgrade.image_size, esize)>>
        style == status_style(slot)
        tail_pos == esize - STATUS_TAIL_SIZE
        flags == IF style = "OverWrite" THEN flag_slots(tail_pos, slot.write_size)
                 ELSE <<>>
        end_hashes == IF flags = <<>> THEN tail_pos ELSE flags[3]
        base == round_down(end_hashes, esize)
        total_image_sectors == image_sectors[1] + image_sectors[2]
        inline_hashes == inline_hashes_of(end_hashes, base, total_image_sectors)
        extra == hash_pages_loop(esize, total_image_sectors - inline_hashes, <<>>)
    IN  IF ~is_power_of_two(slot.erase_size) \/ ~is_power_of_two(slot.write_size)
        THEN NoLayout("Panic")
        ELSE IF style = "Panic" THEN NoLayout("Panic")
        ELSE IF tail_pos < 0 \/ end_hashes < 0
             THEN NoLayout(IF overflow_checks THEN "Panic" ELSE "Wrapped")
        ELSE IF extra.panic THEN NoLayout("Panic")
        ELSE [result |-> "Ok",
              style |-> style,
              erase_size |-> esize,
              write_size |-> slot.write_size,
              image_sectors |-> image_sectors,
              tail_pos |-> tail_pos,
              flags |-> flags,
              inline_hashes |-> inline_hashes,
              hash_pages |-> extra.hash_pages]

\* StatusLayout::read: the tail is read from the last erase unit of the
\* flash at tail_pos.  offset and len are those of the read it issues.
StatusLayout_read(layout, f) ==
    LET last_page == ((capacity(f) \div f.erase_size) - 1) * f.erase_size
        last_tail_pos == last_page + layout.tail_pos
        r == read(f, last_tail_pos, STATUS_TAIL_SIZE)
    IN  [status |-> IF r.result = "Ok" THEN Okay ELSE Flash(r.result),
         offset |-> last_tail_pos, len |-> STATUS_TAIL_SIZE]

(***************************************************************************)
(* The upgrade states of the module documentation of boot::status.  A      *)
(* status tail is the set of marks present in it: the magic, the meta data *)
(* (m) and the flags move done (md), copy done (cd) and image ok (ok).     *)
(***************************************************************************)
Marks == <<"magic", "m", "md", "cd", "ok">>

\* The tail holding the first k marks: blank, magic, magic+m, ..
TailOf(k) == {Marks[i] : i \in 1 .. k}

Row(main, upgrade, state) ==
    [any |-> FALSE, main |-> main, upgrade |-> upgrade, state |-> state]

\* A row whose slot 0 column is "any".
AnyRow(upgrade, state) ==
    [any |-> TRUE, main |-> {}, upgrade |-> upgrade, state |-> state]

\* The table of states, row by row.
StateTable ==
    << Row(TailOf(0), TailOf(0), "None"),
       AnyRow(TailOf(1), "Request"),
       Row(TailOf(2), TailOf(1), "Started"),
       Row(TailOf(3), TailOf(1), "MoveDone"),
       Row(TailOf(4), TailOf(1), "CopyDone"),
       Row(TailOf(5), TailOf(1), "ImageOk"),
       Row(TailOf(4), TailOf(2), "RevertStarted"),
       Row(TailOf(4), TailOf(3), "RevertMoveDone"),
       Row(TailOf(5), TailOf(5), "RevertCopyDone"),
       Row(TailOf(5), TailOf(5), "RevertCopyDone") >>

\* The rows of the table the two tails match.
MatchingRows(main, upgrade) ==
    {i \in 1 .. Len(StateTable) :
        /\ StateTable[i].any \/ StateTable[i].main = main
        /\ StateTable[i].upgrade = upgrade}

\* No upgrade in progress: both tails blank, nothing written or decoded.
NoSwap ==
    [main |-> {}, upgrade |-> {}, upgrade_layout |-> NoLayout("None"),
     writes |-> <<>>, rows |-> {}, booted |-> FALSE]

(***************************************************************************)
(* boards::lpc55s69::flash: a partition of the memory-mapped flash of the  *)
(* LPC55S6x, read through the page check of the flash controller.          *)
(***************************************************************************)
LPC_FLASH_BASE == 0

LPC_FLASH_SIZE == 645120

\* The size of the page a read check covers.
LPC_PAGE == 512

\* The command of the flash controller that checks a page.
CMD_READ_CHECK == 6

\* LpcPartition::new: the partition, or the error.
LpcPartition_new(base, length) ==
    LET end == base + length - 1
        in_range(a) == LPC_FLASH_BASE <= a /\ a < LPC_FLASH_BASE + LPC_FLASH_SIZE
    IN  IF length = 0 THEN [result |-> "OutOfBounds", base |-> base, length |-> length]
        ELSE IF ~(in_range(base) /\ in_range(end))
             THEN [result |-> "OutOfBounds", base |-> base, length |-> length]
        ELSE [result |-> "Ok", base |-> base, length |-> length]

\* LpcPartition::valid_bound: offset is the address in the device.  The
\* range self.base .. self.base + self.length - 1 excludes its upper end.
valid_bound(part, offset, length) ==
    \/ length = 0
    \/ /\ part.base <= offset /\ offset < part.base + part.length - 1
       /\ part.base <= offset + (length - 1)
       /\ offset + (length - 1) < part.base + part.length - 1

\* The registers of the flash controller: the done and fail bits of
\* int_status, starta, stopa, the last command, and whether it is running.
NoRegs == [done |-> FALSE, fail |-> FALSE, starta |-> 0, stopa |-> 0, cmd |-> 0,
           busy |-> FALSE]

\* int_clr_status.write(done | err | fail | ecc_err)
clr_status(regs) == [regs EXCEPT !.done = FALSE, !.fail = FALSE]

\* The loop of read_check left without looking at the done bit.
done_bit_ignored(regs) == TRUE

\* while flash.int_status.read().done().bit_is_clear() {} is left.
done_bit_set(regs) == regs.done

\* No partition, no read.
NoLpc ==
    [part |-> [result |-> "None", base |-> 0, length |-> 0], programmed |-> {},
     regs |-> NoRegs, step |-> "idle", offset |-> 0, len |-> 0, addr |-> 0,
     bpage |-> 0, end |-> 0, good |-> TRUE, result |-> "None", copied |-> FALSE,
     log |-> <<>>]

(***************************************************************************)
(* Spec: a simulated flash under arbitrary calls.                          *)
(***************************************************************************)
\* (read_size, write_size, erase_size, sectors) of the devices of Spec: write
\* units smaller than and equal to the erase unit, and a read unit above 1.
Geometries == {<<1, 1, 2, 1>>, <<1, 2, 2, 2>>, <<2, 2, 2, 2>>, <<2, 2, 4, 1>>}

\* The lengths of the read and write requests of Spec, and the fills v a
\* write may carry.
Lengths == 0 .. 2

Fills == {1, 2}

\* The bytes of a write: a pattern that differs per position and per v.
Pattern(v, len) == [i \in 1 .. len |-> 16 * v + i]

NotRun == [result |-> "None", err |-> ""]

NoVerdict == [status |-> NotRun, reads |-> <<>>, cmp |-> <<>>]

NoCall == [op |-> "new", a |-> 0, b |-> 0, result |-> "Ok", bytes |-> <<>>]

NoStatus ==
    [main |-> SlotInfo(0, 0, 0, 0), upgrade |-> SlotInfo(0, 0, 0, 0),
     style |-> "None", layout |-> NoLayout("None"),
     read |-> [status |-> NotRun, offset |-> 0, len |-> 0]]

\* Nothing iterated yet.
NoIter == [tag |-> "NotRun", status |-> NotRun, entries |-> <<>>, reads |-> <<>>, base |-> -1]

Running == last.result # "Panic"

SetFlash(f) ==
    /\ read_size' = f.read_size
    /\ write_size' = f.write_size
    /\ erase_size' = f.erase_size
    /\ data' = f.data
    /\ page_state' = f.page_state

InitFlash(f) ==
    /\ read_size = f.read_size
    /\ write_size = f.write_size
    /\ erase_size = f.erase_size
    /\ data = f.data
    /\ page_state = f.page_state
    /\ last = NoCall
    /\ last_written = [i \in 1 .. capacity(f) |-> -1]
    /\ calls = 0

Init ==
    /\ overflow_checks \in BOOLEAN
    /\ usize_bits = 64
    /\ \E g \in Geometries : InitFlash(new(g[1], g[2], g[3], g[4]))
    /\ pc = "idle"
    /\ installed = <<>>
    /\ flipped = -1
    /\ image = NoImage(NotRun, <<>>)
    /\ verdict = NoVerdict
    /\ slots = NoStatus
    /\ swap = NoSwap
    /\ lpc = NoLpc
    /\ iter = NoIter
    /\ cell = NoBorrow

Read(offset, len) ==
    /\ Running
    /\ LET r == read(self, offset, len)
       IN  last' = [op |-> "read", a |-> offset, b |-> len,
                    result |-> r.result, bytes |-> r.out]
    /\ UNCHANGED <<slots, flash_vars, build_vars, ext_vars, last_written, calls, image_vars>>

Erase(from, to) ==
    /\ Running
    /\ calls < MaxCalls
    /\ LET r == erase(self, from, to)
       IN  /\ SetFlash(r.f)
           /\ last' = [op |-> "erase", a |-> from, b |-> to,
                       result |-> r.result, bytes |-> <<>>]
           /\ calls' = IF r.result = "Ok" THEN calls + 1 ELSE calls
    /\ UNCHANGED <<slots, build_vars, ext_vars, last_written, image_vars>>

Write(offset, bytes) ==
    /\ Running
    /\ calls < MaxCalls
    /\ LET r == write(self, offset, bytes)
       IN  /\ SetFlash(r.f)
           /\ last' = [op |-> "write", a |-> offset, b |-> Len(bytes),
                       result |-> r.result, bytes |-> bytes]
           /\ last_written' =
                 IF r.result = "Ok"
                 THEN [i \in 1 .. capacity(self) |->
                         IF offset < i /\ i <= offset + Len(bytes)
                         THEN bytes[i - offset] ELSE last_written[i]]
                 ELSE last_written
           /\ calls' = IF r.result = "Ok" THEN calls + 1 ELSE calls
    /\ UNCHANGED <<slots, build_vars, ext_vars, image_vars>>

Next ==
    \/ \E offset \in 0 .. capacity(self) + 1, len \in Lengths : Read(offset, len)
    \/ \E from \in 0 .. capacity(self) + 1, to \in 0 .. capacity(self) + 1 :
          Erase(from, to)
    \/ \E offset \in 0 .. capacity(self) + 1, len \in Lengths, v \in Fills :
          Write(offset, Pattern(v, len))

Spec == Init /\ [][Next]_vars

(***************************************************************************)
(* SpecImage: an image is put on a fresh flash, one bit of it may flip,    *)
(* and the flash is parsed (from_flash) and validated (validate).          *)
(***************************************************************************)
InitImage ==
    /\ overflow_checks = TRUE
    /\ usize_bits \in {32, 64}
    /\ \E g \in Styles : InitFlash(new(g[1], g[2], g[3], g[4]))
    /\ pc = "blank"
    /\ installed = <<>>
    /\ flipped = -1
    /\ image = NoImage(NotRun, <<>>)
    /\ verdict = NoVerdict
    /\ slots = NoStatus
    /\ swap = NoSwap
    /\ lpc = NoLpc
    /\ iter = NoIter
    /\ cell = NoBorrow

\* flash.install(&img.data, 0)
Install(bytes) ==
    /\ pc = "blank"
    /\ LET r == install(self, bytes, 0)
       IN  /\ SetFlash(r.f)
           /\ last' = [op |-> "install", a |-> 0, b |-> Len(bytes),
                       result |-> r.result, bytes |-> bytes]
           /\ pc' = IF r.result = "Ok" THEN "installed" ELSE "install_failed"
    /\ installed' = bytes
    /\ UNCHANGED <<slots, build_vars, ext_vars, last_written, calls, flipped, image, verdict>>

\* bytes, padded with 0xff to whole write units.
Padded(f, bytes) ==
    bytes \o Repeat(255, (f.write_size - (Len(bytes) % f.write_size)) % f.write_size)

\* The image placed by the caller itself: erase the device, then write.
program(f, bytes) ==
    LET e == erase(f, 0, capacity(f))
    IN  IF e.result # "Ok" THEN e ELSE write(e.f, 0, Padded(f, bytes))

Program(bytes) ==
    /\ pc = "blank"
    /\ LET r == program(self, bytes)
       IN  /\ SetFlash(r.f)
           /\ last' = [op |-> "program", a |-> 0, b |-> Len(bytes),
                       result |-> r.result, bytes |-> bytes]
           /\ pc' = IF r.result = "Ok" THEN "installed" ELSE "install_failed"
    /\ installed' = bytes
    /\ UNCHANGED <<slots, build_vars, ext_vars, last_written, calls, flipped, image, verdict>>

FlipBit(byte, k) == IF (byte \div (2 ^ k)) % 2 = 1 THEN byte - 2 ^ k ELSE byte + 2 ^ k

CorruptBit(offset, k) ==
    /\ data' = [data EXCEPT ![offset + 1] = FlipBit(data[offset + 1], k)]
    /\ flipped' = offset
    /\ pc' = "corrupted"
    /\ UNCHANGED <<slots, read_size, write_size, erase_size, page_state, build_vars, ext_vars,
                   last, last_written, calls, installed, image, verdict>>

ValidatesOk(f) ==
    LET img == from_flash(f)
    IN  img.status.result = "Ok" /\ validate(f, img).status.result = "Ok"

\* One bit of an installed image that validates changes.
Corrupt ==
    /\ pc = "installed"
    /\ ValidatesOk(self)
    /\ \E offset \in 0 .. Len(installed) - 1, k \in 0 .. 7 : CorruptBit(offset, k)

\* Image::from_flash(&flash)
FromFlash ==
    /\ pc \in {"installed", "corrupted", "install_failed"}
    /\ image' = from_flash(self)
    /\ cell' = borrowed_reads(cell, image'.reads)
    /\ pc' = "parsed"
    /\ UNCHANGED <<slots, flash_vars, build_vars, swap, lpc, iter, last, last_written, calls, installed,
                   flipped, verdict>>

\* A read that forgets the state of the first page it touched.
read_effect_disturbs(f, offset, len) == SetPages(f, {page_of(f, offset)}, "Unknown")

\* What one SimFlash::read leaves of the flash: read takes &mut self and
\* assigns to none of its fields.
read_effect(f, offset, len) == f

\* The flash after the reads of log, issued in order.
RECURSIVE after_reads(_, _)
after_reads(f, log) ==
    IF log = <<>> THEN f
    ELSE after_reads(read_effect(f, Head(log).offset, Head(log).len), Tail(log))

\* image.validate()
Validate ==
    /\ pc = "parsed"
    /\ image.status.result = "Ok"
    /\ verdict' = validate(self, image)
    /\ SetFlash(after_reads(self, verdict'.reads))
    /\ cell' = borrowed_reads(cell, verdict'.reads)
    /\ pc' = "validated"
    /\ UNCHANGED <<slots, build_vars, swap, lpc, iter, last, last_written, calls, installed, flipped, image>>

\* image.validate() called a second time on the same Image.
Revalidate ==
    /\ pc = "validated"
    /\ verdict' = validate(self, image)
    /\ SetFlash(after_reads(self, verdict'.reads))
    /\ cell' = borrowed_reads(cell, verdict'.reads)
    /\ pc' = "revalidated"
    /\ UNCHANGED <<slots, build_vars, swap, lpc, iter, last, last_written, calls, installed, flipped, image>>

\* for elt in image.tlvs()? over the image from_flash returned, for an
\* image as it was placed on the flash.
IterateTlvs ==
    /\ pc = "parsed"
    /\ flipped = -1
    /\ image.status.result = "Ok"
    /\ iter' = TlvIter_collect(self, image)
    /\ cell' = borrowed_reads(cell, iter'.reads)
    /\ pc' = "iterated"
    /\ UNCHANGED <<slots, swap, lpc, flash_vars, build_vars, last, last_written, calls,
                   installed, flipped, image, verdict>>

\* image.get_image_base() for a flash mapped at address base: the value
\* get_base() + hdr_size, computed under a shared borrow of the cell.
GetImageBase(base) ==
    /\ pc = "iterated"
    /\ cell' = drop_Ref(borrow(cell))
    /\ iter' = [iter EXCEPT !.base = base + image.hdr_size]
    /\ pc' = "based"
    /\ UNCHANGED <<slots, swap, lpc, flash_vars, build_vars, last, last_written, calls,
                   installed, flipped, image, verdict>>

NextImage ==
    \/ \E bytes \in Images : Install(bytes)
    \/ \E bytes \in Images \cup CraftedImages : Program(bytes)
    \/ Corrupt
    \/ FromFlash
    \/ Validate
    \/ Revalidate
    \/ IterateTlvs
    \/ \E base \in {LPC_FLASH_BASE, 65536} : GetImageBase(base)

SpecImage == InitImage /\ [][NextImage]_vars

(***************************************************************************)
(* SpecStatus: the main slot is a simulated flash, or a SlotInfo of a      *)
(* device too large to simulate; the upgrade slot is a SlotInfo.  The      *)
(* style and the layout of the main slot are computed, the flash is        *)
(* optionally written, and the status tail is read from it.                *)
(***************************************************************************)
\* (read_size, write_size, erase_size, sectors) of the simulated main slots.
SlotDevices == {<<1, 8, 512, 2>>, <<1, 32, 1024, 2>>, <<1, 64, 512, 2>>}

\* Image sizes, in bytes: none, the 76 KiB test image, and up to MAX_IMAGE.
StatusSizes == {0, 77824, 300000, MAX_IMAGE}

\* (write_size, erase_size, capacity) of main slots given as SlotInfo alone:
\* K64, STM32F, STM32H, LPC and EXT_UPGRADE of the predefined styles, a
\* 512-byte page device that holds a MAX_IMAGE image, a geometry
\* status_style does not support, an erase unit smaller than the tail, and
\* a write size that is no power of two.
LargeGeometries ==
    {<<8, 4096, 135168>>, <<8, 131072, 262144>>, <<32, 131072, 524288>>,
     <<512, 512, 131072>>, <<256, 4096, 131072>>, <<512, 512, 1048576>>,
     <<64, 8192, 131072>>, <<8, 64, 128>>, <<24, 512, 1024>>}

\* (write_size, erase_size, capacity) of the upgrade slots.
UpgradeGeometries ==
    {<<8, 512, 1048576>>, <<8, 4096, 135168>>, <<8, 131072, 131072>>}

InitStatus ==
    /\ overflow_checks \in BOOLEAN
    /\ usize_bits = 64
    /\ \E g \in SlotDevices : InitFlash(new(g[1], g[2], g[3], g[4]))
    /\ pc = "slots"
    /\ installed = <<>>
    /\ flipped = -1
    /\ image = NoImage(NotRun, <<>>)
    /\ verdict = NoVerdict
    /\ swap = NoSwap
    /\ lpc = NoLpc
    /\ iter = NoIter
    /\ cell = NoBorrow
    /\ \E size \in StatusSizes, u \in UpgradeGeometries, usize \in StatusSizes :
          \E m \in {from_data(size, self)}
                     \cup {SlotInfo(g[1], g[2], g[3], size) : g \in LargeGeometries} :
             slots = [NoStatus EXCEPT !.main = m,
                                       !.upgrade = SlotInfo(u[1], u[2], u[3], usize)]

\* info.status_style()
StatusStyle ==
    /\ pc = "slots"
    /\ slots' = [slots EXCEPT !.style = status_style(slots.main)]
    /\ pc' = "styled"
    /\ UNCHANGED <<flash_vars, build_vars, ext_vars, last, last_written, calls, installed,
                   flipped, image, verdict>>

\* info.status_layout(&upgrade_info)
StatusLayout ==
    /\ pc = "styled"
    /\ slots' = [slots EXCEPT !.layout = status_layout(slots.main, slots.upgrade)]
    /\ pc' = "laid_out"
    /\ UNCHANGED <<flash_vars, build_vars, ext_vars, last, last_written, calls, installed,
                   flipped, image, verdict>>

\* The whole slot erased and written (with zeros) by its owner.
ProgramSlot ==
    /\ pc = "laid_out"
    /\ last.op = "new"
    /\ LET r == program(self, Repeat(0, capacity(self)))
       IN  /\ SetFlash(r.f)
           /\ last' = [op |-> "program", a |-> 0, b |-> capacity(self),
                       result |-> r.result, bytes |-> <<>>]
    /\ UNCHANGED <<build_vars, ext_vars, last_written, calls, pc, installed, flipped, image,
                   verdict, slots>>

\* layout.read(&mut flash), for the flash the main SlotInfo was taken from.
StatusRead ==
    /\ pc = "laid_out"
    /\ slots.layout.result = "Ok"
    /\ slots.main = from_data(slots.main.image_size, self)
    /\ slots' = [slots EXCEPT !.read = StatusLayout_read(slots.layout, self)]
    /\ pc' = "status_read"
    /\ UNCHANGED <<flash_vars, build_vars, ext_vars, last, last_written, calls, installed,
                   flipped, image, verdict>>

NextStatus ==
    \/ StatusStyle
    \/ StatusLayout
    \/ ProgramSlot
    \/ StatusRead

SpecStatus == InitStatus /\ [][NextStatus]_vars

(***************************************************************************)
(* SpecUpgrade: the status tails of two slots of the OverWrite style go    *)
(* through the steps of the state table, one mark per write; the device    *)
(* may lose power after any write and decodes the state when it boots.     *)
(***************************************************************************)
\* (write_size, erase_size) of the slots of SpecUpgrade.
SwapGeometries == {<<8, 512>>, <<8, 4096>>, <<16, 4096>>, <<32, 131072>>}

SwapSizes == {0, 77824}

InitUpgrade ==
    /\ overflow_checks \in BOOLEAN
    /\ usize_bits = 64
    /\ InitFlash(new(1, 8, 512, 2))
    /\ pc = "swap"
    /\ installed = <<>>
    /\ flipped = -1
    /\ image = NoImage(NotRun, <<>>)
    /\ verdict = NoVerdict
    /\ \E g \in SwapGeometries, u \in SwapGeometries, size \in SwapSizes :
          LET m == SlotInfo(g[1], g[2], 2 * 131072, size)
              up == SlotInfo(u[1], u[2], 2 * 131072, size)
          IN  /\ slots = [NoStatus EXCEPT !.main = m, !.upgrade = up,
                                          !.style = status_style(m),
                                          !.layout = status_layout(m, up)]
              /\ swap = [NoSwap EXCEPT !.upgrade_layout = status_layout(up, m)]
    /\ lpc = NoLpc
    /\ iter = NoIter
    /\ cell = NoBorrow

\* The write that adds the next mark to a tail: the tail record for the
\* magic and the meta data, the cell of the flag for md, cd and ok.
TailWrite(slot, tail, layout) ==
    LET k == Cardinality(tail) + 1
    IN  [slot |-> slot, mark |-> Marks[k],
         offset |-> IF k <= 2 THEN layout.tail_pos ELSE layout.flags[k - 2],
         cell |-> k > 2]

\* A step recorded in the tail of the upgrade slot: the request, and the
\* steps of a revert once the copy is done and the image is not confirmed.
WriteUpgradeTail ==
    /\ pc = "swap"
    /\ \/ swap.main = {} /\ swap.upgrade = {}
       \/ swap.main = TailOf(4) /\ Cardinality(swap.upgrade) \in 1 .. 4
    /\ LET w == TailWrite("upgrade", swap.upgrade, swap.upgrade_layout)
       IN  swap' = [swap EXCEPT !.upgrade = @ \cup {w.mark},
                                !.writes = Append(@, w),
                                !.rows = {}, !.booted = FALSE]
    /\ UNCHANGED <<flash_vars, build_vars, last, last_written, calls, image_vars, slots, lpc, iter, cell>>

\* A step recorded in the tail of the main slot, the destination.
WriteMainTail ==
    /\ pc = "swap"
    /\ \/ swap.upgrade = TailOf(1) /\ Cardinality(swap.main) < 5
       \/ swap.upgrade = TailOf(5) /\ swap.main = TailOf(4)
    /\ LET w == TailWrite("main", swap.main, slots.layout)
       IN  swap' = [swap EXCEPT !.main = @ \cup {w.mark},
                                !.writes = Append(@, w),
                                !.rows = {}, !.booted = FALSE]
    /\ UNCHANGED <<flash_vars, build_vars, last, last_written, calls, image_vars, slots, lpc, iter, cell>>

\* Power is lost and the device boots: the state is decoded from the tails.
Reboot ==
    /\ pc = "swap"
    /\ ~swap.booted
    /\ swap' = [swap EXCEPT !.rows = MatchingRows(swap.main, swap.upgrade),
                            !.booted = TRUE]
    /\ UNCHANGED <<flash_vars, build_vars, last, last_written, calls, image_vars, slots, lpc, iter, cell>>

NextUpgrade ==
    \/ WriteUpgradeTail
    \/ WriteMainTail
    \/ Reboot

SpecUpgrade == InitUpgrade /\ [][NextUpgrade]_vars

(***************************************************************************)
(* SpecLpc: one read of an LpcPartition, register access by register       *)
(* access, with the flash controller completing the commands it is given.  *)
(***************************************************************************)
\* (base, length) of the partitions, in bytes.
LpcPartitions == {<<0, 1024>>, <<512, 1024>>, <<1024, 1>>, <<512, 1536>>}

\* The page addresses that are programmed: all of the first four pages, all
\* but one of them, or none.
LpcProgrammed == {{0, 512, 1024, 1536}, {0, 512, 1536}, {0, 1024, 1536}, {}}

\* offset and buf.len() of the reads.
LpcOffsets == {0, 1, 511, 512, 600, 1023, 1024, 1536}

LpcLengths == {0, 1, 2, 512, 513, 1024, 1536}

Unaffected == <<flash_vars, build_vars, last, last_written, calls, image_vars, slots, swap, iter, cell>>

InitLpc ==
    /\ overflow_checks \in BOOLEAN
    /\ usize_bits = 32
    /\ InitFlash(new(1, 8, 512, 2))
    /\ pc = "lpc"
    /\ installed = <<>>
    /\ flipped = -1
    /\ image = NoImage(NotRun, <<>>)
    /\ verdict = NoVerdict
    /\ slots = NoStatus
    /\ swap = NoSwap
    /\ iter = NoIter
    /\ cell = NoBorrow
    /\ \E p \in LpcPartitions, prog \in LpcProgrammed :
          lpc = [NoLpc EXCEPT !.part = LpcPartition_new(p[1], p[2]),
                              !.programmed = prog]

\* read(offset, buf): the bound check and the start of the loop over the pages.
LpcRead(offset, len) ==
    /\ pc = "lpc"
    /\ lpc.step = "idle"
    /\ lpc.part.result = "Ok"
    /\ LET addr == offset + lpc.part.base
       IN  IF ~valid_bound(lpc.part, addr, len)
           THEN lpc' = [lpc EXCEPT !.offset = offset, !.len = len, !.addr = addr,
                                   !.result = "OutOfBounds", !.step = "returned"]
           ELSE lpc' = [lpc EXCEPT !.offset = offset, !.len = len, !.addr = addr,
                                   !.end = addr + len,
                                   !.bpage = round_down(addr, LPC_PAGE),
                                   !.step = "loop"]
    /\ UNCHANGED Unaffected

\* while bpage < end
LpcLoop ==
    /\ pc = "lpc"
    /\ lpc.step = "loop"
    /\ lpc' = [lpc EXCEPT !.step = IF lpc.bpage < lpc.end THEN "clear" ELSE "copy"]
    /\ UNCHANGED Unaffected

\* read_check: the status is cleared before the command.
LpcClear ==
    /\ pc = "lpc"
    /\ lpc.step = "clear"
    /\ lpc' = [lpc EXCEPT !.regs = clr_status(@), !.step = "starta"]
    /\ UNCHANGED Unaffected

\* read_check: starta, stopa and cmd are written.
LpcStarta ==
    /\ pc = "lpc"
    /\ lpc.step = "starta"
    /\ lpc' = [lpc EXCEPT !.regs.starta = lpc.bpage \div 16, !.step = "stopa"]
    /\ UNCHANGED Unaffected

LpcStopa ==
    /\ pc = "lpc"
    /\ lpc.step = "stopa"
    /\ lpc' = [lpc EXCEPT !.regs.stopa = lpc.bpage \div 16, !.step = "cmd"]
    /\ UNCHANGED Unaffected

LpcCmd ==
    /\ pc = "lpc"
    /\ lpc.step = "cmd"
    /\ lpc' = [lpc EXCEPT !.regs.cmd = CMD_READ_CHECK, !.regs.busy = TRUE,
                          !.step = "wait",
                          !.log = Append(@, [ev |-> "cmd", code |-> CMD_READ_CHECK,
                                             starta |-> lpc.regs.starta,
                                             stopa |-> lpc.regs.stopa,
                                             busy |-> lpc.regs.busy])]
    /\ UNCHANGED Unaffected

\* The controller completes the command: done is set, and fail is set when
\* the page between starta and stopa is not programmed.
LpcComplete ==
    /\ pc = "lpc"
    /\ lpc.regs.busy
    /\ lpc' = [lpc EXCEPT !.regs.busy = FALSE, !.regs.done = TRUE,
                          !.regs.fail = (lpc.regs.starta * 16) \notin lpc.programmed]
    /\ UNCHANGED Unaffected

\* read_check: the wait for the done bit ends.
LpcWait ==
    /\ pc = "lpc"
    /\ lpc.step = "wait"
    /\ done_bit_set(lpc.regs)
    /\ lpc' = [lpc EXCEPT !.step = "sample",
                          !.log = Append(@, [ev |-> "done", code |-> 0,
                                             starta |-> lpc.regs.starta,
                                             stopa |-> lpc.regs.stopa,
                                             busy |-> lpc.regs.busy])]
    /\ UNCHANGED Unaffected

\* read_check: good = fail bit clear.
LpcSample ==
    /\ pc = "lpc"
    /\ lpc.step = "sample"
    /\ lpc' = [lpc EXCEPT !.good = ~lpc.regs.fail, !.step = "clear_after",
                          !.log = Append(@, [ev |-> "sample", code |-> 0,
                                             starta |-> lpc.regs.starta,
                                             stopa |-> lpc.regs.stopa,
                                             busy |-> lpc.regs.busy])]
    /\ UNCHANGED Unaffected

\* read_check: the status is cleared and good returned; read goes on with
\* the next page or returns Other.
LpcClearAfter ==
    /\ pc = "lpc"
    /\ lpc.step = "clear_after"
    /\ lpc' = IF lpc.good
              THEN [lpc EXCEPT !.regs = clr_status(@), !.bpage = @ + LPC_PAGE,
                               !.step = "loop"]
              ELSE [lpc EXCEPT !.regs = clr_status(@), !.result = "Other",
                               !.step = "returned"]
    /\ UNCHANGED Unaffected

\* buf.copy_from_slice(slice); Ok(())
LpcCopy ==
    /\ pc = "lpc"
    /\ lpc.step = "copy"
    /\ lpc' = [lpc EXCEPT !.copied = TRUE, !.result = "Ok", !.step = "returned"]
    /\ UNCHANGED Unaffected

NextLpc ==
    \/ \E offset \in LpcOffsets, len \in LpcLengths : LpcRead(offset, len)
    \/ LpcLoop
    \/ LpcClear
    \/ LpcStarta
    \/ LpcStopa
    \/ LpcCmd
    \/ LpcComplete
    \/ LpcWait
    \/ LpcSample
    \/ LpcClearAfter
    \/ LpcCopy

SpecLpc == InitLpc /\ [][NextLpc]_vars

(***************************************************************************)
(* Claims about the simulated flash (Spec).                                *)
(***************************************************************************)
\* The pages holding at least one byte of [offset, offset + len).
Touched(offset, len) ==
    {p \in 0 .. NumPages(self) - 1 :
        \E x \in offset .. offset + len - 1 : x \div write_size = p}

Aligned(align, offset, len) == offset % align = 0 /\ len % align = 0

InBounds(offset, len) == offset + len <= capacity(self)

C3_BoundsBeforeAlignment ==
    last.op = "read" =>
        /\ last.result = "OutOfBounds" <=> ~InBounds(last.a, last.b)
        /\ last.result = "NotAligned" <=>
              (InBounds(last.a, last.b) /\ ~Aligned(read_size, last.a, last.b))

\* A read that is both misaligned and out of range.
C3_Witness ==
    /\ last.op = "read"
    /\ ~InBounds(last.a, last.b)
    /\ ~Aligned(read_size, last.a, last.b)
    /\ last.result = "OutOfBounds"

\* C3 (as claimed): NotAligned iff offset or length is not a multiple of
\* read_size, the alignment check coming before the bounds check.
C3_AlignmentBeforeBounds ==
    last.op = "read" =>
        /\ last.result = "NotAligned" <=> ~Aligned(read_size, last.a, last.b)
        /\ last.result = "OutOfBounds" <=>
              (Aligned(read_size, last.a, last.b) /\ ~InBounds(last.a, last.b))

\* C4: a write-aligned, in-bounds write whose range includes a page that is
\* not Erased returns NotErased and changes no data byte and no page state.
C4_FailedWriteChangesNothing ==
    [][ ( /\ last'.op = "write"
          /\ Aligned(write_size, last'.a, last'.b)
          /\ InBounds(last'.a, last'.b)
          /\ \E p \in Touched(last'.a, last'.b) : page_state[p + 1] # "Erased" )
        => ( /\ last'.result = "NotErased"
             /\ data' = data
             /\ page_state' = page_state ) ]_vars

\* A rejected write that targeted an Erased page as well as one that is not.
C4_Witness ==
    /\ last.op = "write"
    /\ last.result = "NotErased"
    /\ \E p \in Touched(last.a, last.b) : page_state[p + 1] = "Erased"
    /\ \E p \in Touched(last.a, last.b) : page_state[p + 1] # "Erased"

\* C5: erase(from, to) with erase-aligned from <= to <= capacity returns Ok,
\* sets exactly the pages lying in [from, to) to Erased and leaves the state
\* of every other page unchanged.
C5_EraseSetsExactlyRange ==
    [][ ( /\ last'.op = "erase"
          /\ last'.a % erase_size = 0
          /\ last'.b % erase_size = 0
          /\ last'.a <= last'.b
          /\ last'.b <= capacity(self) )
        => ( /\ last'.result = "Ok"
             /\ \A p \in 0 .. NumPages(self) - 1 :
                   page_state'[p + 1] =
                      IF last'.a <= p * write_size /\ p * write_size < last'.b
                      THEN "Erased" ELSE page_state[p + 1] ) ]_vars

(***************************************************************************)
(* Claims about images (SpecImage).                                        *)
(***************************************************************************)
\* The bytes [offset, offset + len) lie in the device, in Written pages.
Readable(offset, len) ==
    /\ InBounds(offset, len)
    /\ \A p \in Touched(offset, len) : page_state[p + 1] = "Written"

Bytes(offset, len) == [i \in 1 .. len |-> data[offset + i]]

\* The TLV entries of the region at base, walked as the format defines them:
\* the cursor is relative to base, starts behind TlvInfo and advances by
\* 4 + len per entry until it reaches limit (TlvInfo.len).
RECURSIVE TlvWalk(_, _, _)
TlvWalk(base, cursor, limit) ==
    IF cursor >= limit \/ ~InBounds(base + cursor, TLV_ENTRY_SIZE) THEN <<>>
    ELSE LET e == TlvEntry(Bytes(base + cursor, TLV_ENTRY_SIZE))
         IN  <<[kind |-> e.kind, len |-> e.len, pos |-> base + cursor + TLV_ENTRY_SIZE]>>
               \o TlvWalk(base, cursor + TLV_ENTRY_SIZE + e.len, limit)

\* The entries of the image that from_flash accepted.
Entries == TlvWalk(image.tlv_base, TLV_ENTRY_SIZE, image.tlv_size)

ShaEntries == {k \in 1 .. Len(Entries) : Entries[k].kind = TLV_SHA256}

Validated == pc = "validated"

\* C2: for every predefined style and every valid signed image B that fits,
\* install(B, 0) returns Ok, after which read(0, len(B)) returns B,
\* from_flash succeeds and validate returns Ok.
C2_InstallThenValidate ==
    (last.op = "install" /\ installed \in SignedImages) =>
        /\ last.result = "Ok"
        /\ read(self, 0, Len(installed)).out = installed
        /\ pc \in {"parsed", "validated"} => image.status.result = "Ok"
        /\ Validated => verdict.status.result = "Ok"

\* C6: validate returns InvalidImage for every image whose TLV region holds
\* two or more SHA-256 entries.
C6_DuplicateShaRejected ==
    (Validated /\ Cardinality(ShaEntries) >= 2) =>
        verdict.status.result = "InvalidImage"

\* C7: validate returns InvalidImage for every image whose TLV region holds
\* an entry of a kind other than 0x10, at any position.
C7_UnknownKindRejected ==
    (Validated /\ \E k \in 1 .. Len(Entries) : Entries[k].kind # TLV_SHA256) =>
        verdict.status.result = "InvalidImage"

\* C8: validate returns InvalidImage for every image whose TLV region holds
\* no SHA-256 entry (an empty region included), and it returns Ok only after
\* it compared the payload of a SHA-256 entry with the hash of [0, tlv_base).
C8_ShaRequired ==
    Validated =>
        /\ ShaEntries = {} => verdict.status.result = "InvalidImage"
        /\ verdict.status.result = "Ok" =>
              /\ verdict.cmp # <<>>
              /\ \A c \in 1 .. Len(verdict.cmp) :
                    /\ \E k \in ShaEntries : Entries[k].pos = verdict.cmp[c].pos
                    /\ verdict.cmp[c].hash = Bytes(verdict.cmp[c].pos, HASH_SIZE)
                    /\ verdict.cmp[c].image_hash = Sha256(Bytes(0, image.tlv_base))
                    /\ verdict.cmp[c].hash = verdict.cmp[c].image_hash

\* An image with an empty TLV region, rejected.
C8_Witness ==
    /\ Validated
    /\ image.tlv_size <= TLV_ENTRY_SIZE
    /\ verdict.status.result = "InvalidImage"

\* tlv_base of the image as it was installed.
InstalledTlvBase == U16(installed, 8) + U16(installed, 12)

\* The flipped bit lies in the hashed range outside the header's magic,
\* hdr_size and img_size, or in the payload of the SHA-256 entry.
FlipInScope ==
    /\ flipped # -1
    /\ \/ /\ flipped < InstalledTlvBase
          /\ flipped \notin {0, 1, 2, 3, 8, 9, 12, 13, 14, 15}
       \/ /\ flipped >= InstalledTlvBase + 2 * TLV_ENTRY_SIZE
          /\ flipped < InstalledTlvBase + 2 * TLV_ENTRY_SIZE + HASH_SIZE

\* C9: after one bit of an installed image that validated has flipped, in the
\* hashed range (magic, hdr_size and img_size left intact) or in the SHA-256
\* payload, from_flash still accepts the image and validate returns
\* InvalidImage (not Flash).  Only an image that validates is ever flipped.
C9_BitFlipRejected ==
    FlipInScope =>
        /\ pc \in {"parsed", "validated"} => image.status.result = "Ok"
        /\ Validated => verdict.status.result = "InvalidImage"

\* A flipped bit of the SHA-256 payload of a multi-chunk image, rejected.
C9_Witness ==
    /\ Validated
    /\ FlipInScope
    /\ flipped >= InstalledTlvBase
    /\ InstalledTlvBase > HASH_BUFFER
    /\ verdict.status.result = "InvalidImage"

\* C10: if the 32 bytes at offset 0 are readable and their magic is wrong,
\* from_flash returns InvalidImage having issued that one read only; if the
\* magic is right, the 4 bytes at tlv_base are readable and their magic is
\* not 0x6907, from_flash returns InvalidImage as well.
C10_BadMagicRejected ==
    (pc = "parsed" /\ Readable(0, HEADER_SIZE)) =>
        /\ Bytes(0, 4) # IMAGE_MAGIC =>
              /\ image.status.result = "InvalidImage"
              /\ image.reads = <<[offset |-> 0, len |-> HEADER_SIZE, result |-> "Ok"]>>
        /\ ( /\ Bytes(0, 4) = IMAGE_MAGIC
             /\ U16(data, 14) = 0
             /\ Readable(U16(data, 8) + U16(data, 12), TLV_ENTRY_SIZE)
             /\ U16(Bytes(U16(data, 8) + U16(data, 12), 2), 0) # TLV_INFO_MAGIC )
           => image.status.result = "InvalidImage"

\* A flipped bit in the header magic, rejected by from_flash.
C10_Witness ==
    /\ pc = "parsed"
    /\ flipped \in 0 .. 3
    /\ image.status.result = "InvalidImage"

\* C11: a header with valid magic and img_size = u32::MAX makes from_flash
\* return InvalidImage (not a panic, not a Flash error), whatever hdr_size.
C11_HugeImageRejected ==
    ( /\ pc = "parsed"
      /\ Readable(0, HEADER_SIZE)
      /\ Bytes(0, 4) = IMAGE_MAGIC
      /\ U16(data, 12) = 65535
      /\ U16(data, 14) = 65535 )
    => image.status.result = "InvalidImage"

FailStops(log, status) ==
    \A k \in 1 .. Len(log) :
        log[k].result # "Ok" =>
            /\ k = Len(log)
            /\ status = [result |-> "Flash", err |-> log[k].result]

\* C13: when a flash read issued by from_flash or by validate (tlvs, the
\* iterator, read_data, the hash computation) fails with storage error e,
\* the operation ends with Flash(e), and the failed read is the last read
\* it issued.
C13_FlashErrorPropagates ==
    /\ pc \in {"parsed", "validated", "revalidated"} =>
          FailStops(image.reads, image.status)
    /\ pc \in {"validated", "revalidated"} =>
          FailStops(verdict.reads, verdict.status)

\* validate ended by a failed read of a SHA-256 payload.
C13_Witness ==
    /\ pc = "validated"
    /\ verdict.status = [result |-> "Flash", err |-> "NotWritten"]
    /\ Len(verdict.reads) = 3

\* ceil(a / b), by cases.
Ceil(a, b) == IF a % b = 0 THEN a \div b ELSE (a \div b) + 1

RECURSIVE SumOf(_)
SumOf(seq) == IF seq = <<>> THEN 0 ELSE Head(seq) + SumOf(Tail(seq))

\* status_style has been called on the main slot.
Styled == pc \in {"styled", "laid_out", "status_read"}

\* status_layout has been called and returned a descriptor.
LaidOut == pc \in {"laid_out", "status_read"} /\ slots.layout.result = "Ok"

\* C14: status_style returns OverWrite iff write_size <= 32, Paged iff
\* write_size > 32 and erase_size <= 4096, and panics for every other
\* geometry; capacity and image size of the slot do not change the result.
C14_StyleRule ==
    Styled =>
       LET ws == slots.main.write_size
           es == slots.main.erase_size
       IN  /\ slots.style \in {"OverWrite", "Paged", "Panic"}
           /\ slots.style = "OverWrite" <=> ws <= 32
           /\ slots.style = "Paged" <=> (ws > 32 /\ es <= 4096)
           /\ slots.style = "Panic" <=> (ws > 32 /\ es > 4096)
           /\ \A cap \in {es, slots.main.capacity}, size \in StatusSizes :
                 status_style(SlotInfo(ws, es, cap, size)) = slots.style

\* status_style called on a slot with write_size 64 and erase_size 8 KiB.
C14_Witness ==
    /\ pc = "styled"
    /\ slots.main.write_size > 32
    /\ slots.main.erase_size > 4096
    /\ slots.style = "Panic"

\* The K64 geometry with the 76 KiB image in both slots, laid out.
K64Case ==
    /\ pc = "laid_out"
    /\ slots.main = SlotInfo(8, 4096, 33 * 4096, 76 * 1024)
    /\ slots.upgrade = SlotInfo(8, 4096, 33 * 4096, 76 * 1024)

\* C15 (as the code has it): for the K64 geometry with the 76 KiB image in
\* both slots status_style is OverWrite, status_layout reports the three
\* flag slots, all 38 hashes are inline and hash_pages is empty.
C15_K64OverWrite ==
    K64Case =>
       /\ slots.style = "OverWrite"
       /\ slots.layout.result = "Ok"
       /\ slots.layout.style = "OverWrite"
       /\ slots.layout.flags = <<4040, 4032, 4024>>
       /\ slots.layout.inline_hashes = 38
       /\ slots.layout.hash_pages = <<>>

C15_Witness == K64Case /\ slots.layout.result = "Ok"

\* C15 as stated: the K64 case is Paged, without flags, with a hash page.
C15_K64Paged ==
    K64Case =>
       /\ slots.style = "Paged"
       /\ slots.layout.result = "Ok"
       /\ slots.layout.flags = <<>>
       /\ Len(slots.layout.hash_pages) >= 1

\* Where the inline hashes end: below the flags, or below the tail when
\* there are no flags.
EndOfHashes(l) == IF l.flags = <<>> THEN l.tail_pos ELSE l.flags[3]

\* The start of the erase unit the inline hashes lie in.
SectorBase(l) == (EndOfHashes(l) \div l.erase_size) * l.erase_size

\* C16: in every descriptor status_layout returns, inline_hashes plus the
\* sum of hash_pages is ceil(main_size/E) + ceil(upgrade_size/E) for E the
\* larger erase size, inline_hashes is at most (end_of_hashes -
\* sector_base)/4, and every hash_pages entry is in 1 .. E/4, all but the
\* last being E/4.
C16_HashCount ==
    LaidOut =>
       LET l == slots.layout
           E == IF slots.main.erase_size > slots.upgrade.erase_size
                THEN slots.main.erase_size ELSE slots.upgrade.erase_size
           hp == l.hash_pages
       IN  /\ l.inline_hashes + SumOf(hp)
                = Ceil(slots.main.image_size, E) + Ceil(slots.upgrade.image_size, E)
           /\ l.inline_hashes >= 0
           /\ 4 * l.inline_hashes <= EndOfHashes(l) - SectorBase(l)
           /\ \A i \in 1 .. Len(hp) :
                 /\ 1 <= hp[i]
                 /\ 4 * hp[i] <= E
                 /\ i < Len(hp) => 4 * hp[i] = E

\* A descriptor with a full hash page followed by a partly filled one.
C16_Witness ==
    /\ LaidOut
    /\ Len(slots.layout.hash_pages) >= 2
    /\ 4 * slots.layout.hash_pages[Len(slots.layout.hash_pages)]
          < slots.layout.erase_size
    /\ slots.layout.inline_hashes > 0

\* C17 (as the code has it): in every descriptor of an OverWrite slot the
\* three flag slots are write-aligned, one write unit apart, and lie
\* strictly below tail_pos; the inline hashes, 4 bytes each from the start
\* of the erase unit, end at or below the lowest flag slot.
C17_FlagsBelowTail ==
    (LaidOut /\ slots.layout.style = "OverWrite") =>
       LET l == slots.layout
           ws == l.write_size
       IN  /\ Len(l.flags) = 3
           /\ \A i \in 1 .. 3 : l.flags[i] % ws = 0 /\ l.flags[i] + ws <= l.tail_pos
           /\ l.flags[1] = l.flags[2] + ws
           /\ l.flags[2] = l.flags[3] + ws
           /\ SectorBase(l) + 4 * l.inline_hashes <= l.flags[3]
           /\ SectorBase(l) >= 0

\* An OverWrite descriptor with inline hashes.
C17_Witness ==
    /\ LaidOut
    /\ slots.layout.style = "OverWrite"
    /\ slots.layout.inline_hashes > 0

\* C17 as stated: tail_pos lies strictly below the three flag slots, which
\* lie strictly below the inline hash region.
C17_TailBelowFlags ==
    (LaidOut /\ slots.layout.style = "OverWrite") =>
       LET l == slots.layout
       IN  /\ Len(l.flags) = 3
           /\ \A i \in 1 .. 3 : l.tail_pos < l.flags[i]
           /\ \A i \in 1 .. 3 : l.flags[i] < SectorBase(l)

\* A geometry the status code supports: sizes that are powers of two, an
\* erase size from 512 bytes to 128 KiB, a style status_style returns, and
\* an image of at most MAX_IMAGE bytes that fits the slot.
Supported(slot) ==
    /\ is_power_of_two(slot.write_size)
    /\ is_power_of_two(slot.erase_size)
    /\ slot.erase_size \in 512 .. 131072
    /\ slot.write_size <= 32 \/ slot.erase_size <= 4096
    /\ slot.image_size <= MAX_IMAGE
    /\ slot.image_size <= slot.capacity

\* C18: for two supported geometries and image sizes up to MAX_IMAGE,
\* status_layout returns Ok: no push beyond MAX_HASH_SECTORS, no underflow.
C18_LayoutNeverPanics ==
    ( /\ pc = "laid_out"
      /\ Supported(slots.main)
      /\ Supported(slots.upgrade) )
    => /\ slots.layout.result = "Ok"
       /\ Len(slots.layout.hash_pages) <= MAX_HASH_SECTORS

\* C19: StatusLayout::read returns success when the read of the tail fails
\* with NotWritten.
C19_BlankTailIsSuccess ==
    ( /\ pc = "status_read"
      /\ read(self, slots.read.offset, slots.read.len).result = "NotWritten" )
    => slots.read.status = Okay

\* C20: the range StatusLayout::read reads lies in the last erase unit of
\* the slot and ends at its capacity, and tail_pos is the effective erase
\* size less the size of the tail.
C20_TailAtEndOfSlot ==
    ( /\ pc = "status_read"
      /\ Supported(slots.main)
      /\ Supported(slots.upgrade) )
    => /\ slots.layout.tail_pos = slots.layout.erase_size - STATUS_TAIL_SIZE
       /\ slots.read.len = STATUS_TAIL_SIZE
       /\ slots.read.offset >= capacity(self) - erase_size
       /\ slots.read.offset + slots.read.len = capacity(self)

\* The states an upgrade or a revert goes through.
UpgradeStates ==
    {"None", "Request", "Started", "MoveDone", "CopyDone", "ImageOk",
     "RevertStarted", "RevertMoveDone"}

\* C21: every combination of the two tails reachable during a swap or a
\* revert matches exactly one row of the state table, and the row names one
\* of the eight upgrade states.
C21_ExactlyOneRow ==
    (pc = "swap" /\ swap.booted) =>
       /\ Cardinality(swap.rows) = 1
       /\ \A i \in swap.rows : StateTable[i].state \in UpgradeStates

\* The marks written to the tail of slot, in the order of the writes.
MarksWritten(slot) ==
    LET w == SelectSeq(swap.writes, LAMBDA x : x.slot = slot)
    IN  [i \in 1 .. Len(w) |-> w[i].mark]

\* C22: every step of the upgrade sequence is one write that erases nothing
\* (no cell is written twice, a flag cell is write-aligned), the flags of a
\* slot are set in the order md, cd, ok, and after every prefix of the write
\* sequence the two tails match a row of the state table.
C22_PrefixDecodes ==
    pc = "swap" =>
       /\ \A i, j \in 1 .. Len(swap.writes) :
             LET a == swap.writes[i]
                 b == swap.writes[j]
             IN  (i # j /\ a.slot = b.slot /\ a.cell /\ b.cell) => a.offset # b.offset
       /\ \A i \in 1 .. Len(swap.writes) :
             LET a == swap.writes[i]
                 ws == IF a.slot = "main" THEN slots.main.write_size
                       ELSE slots.upgrade.write_size
             IN  a.cell => a.offset % ws = 0
       /\ \A slot \in {"main", "upgrade"} :
             MarksWritten(slot) = SubSeq(Marks, 1, Len(MarksWritten(slot)))
       /\ MatchingRows(swap.main, swap.upgrade) # {}

\* A read has been requested of the partition.
LpcRequested == pc = "lpc" /\ lpc.step # "idle"

\* C23: a read of at least one byte is rejected with OutOfBounds if and
\* only if offset + buf.len() exceeds the length of the partition, and an
\* accepted read is translated to the address base + offset.
C23_ReadBound ==
    (LpcRequested /\ lpc.len >= 1) =>
       /\ (lpc.step = "returned" /\ lpc.result = "OutOfBounds")
             <=> (lpc.offset + lpc.len > lpc.part.length)
       /\ lpc.addr = lpc.part.base + lpc.offset

\* The commands given to the flash controller during the read.
LpcCommands == SelectSeq(lpc.log, LAMBDA e : e.ev = "cmd")

\* The address of the k-th page from the page the read starts in.
LpcPageNo(k) == ((lpc.addr \div 512) + (k - 1)) * 512

\* The pages that hold a byte of the range of the read.
LpcOverlapping ==
    {q \in {LpcPageNo(k) : k \in 1 .. 4} : q < lpc.addr + lpc.len /\ lpc.addr < q + 512}

\* C28: the pages of the range are checked in increasing address order by
\* command 6 with starta = stopa = addr >> 4; a command is given only when
\* the done bit of the one before was seen and its fail bit sampled, the
\* sample is the fail bit the controller set for that page; bytes are
\* copied only after every page of the range passed, and the first page
\* that fails ends the read with an error and without a copy.
C28_PageChecksInOrder ==
    LpcRequested =>
       /\ \A k \in 1 .. Len(LpcCommands) :
             /\ LpcCommands[k].code = 6
             /\ LpcCommands[k].starta = LpcPageNo(k) \div 16
             /\ LpcCommands[k].stopa = LpcPageNo(k) \div 16
             /\ ~LpcCommands[k].busy
       /\ \A i \in 1 .. Len(lpc.log) :
             /\ lpc.log[i].ev = "cmd" <=> i % 3 = 1
             /\ lpc.log[i].ev = "done" <=> i % 3 = 2
             /\ lpc.log[i].ev = "sample" <=> i % 3 = 0
             /\ lpc.log[i].ev = "done" => ~lpc.log[i].busy
       /\ lpc.step = "clear_after" =>
             (lpc.good <=> LpcPageNo(Len(LpcCommands)) \in lpc.programmed)
       /\ lpc.copied =>
             /\ lpc.result = "Ok"
             /\ \A q \in LpcOverlapping :
                   \E k \in 1 .. Len(LpcCommands) : LpcPageNo(k) = q
             /\ \A k \in 1 .. Len(LpcCommands) : LpcPageNo(k) \in lpc.programmed
       /\ lpc.result = "Other" =>
             /\ ~lpc.copied
             /\ lpc.step = "returned"
             /\ LpcPageNo(Len(LpcCommands)) \notin lpc.programmed
             /\ \A k \in 1 .. Len(LpcCommands) - 1 : LpcPageNo(k) \in lpc.programmed
       /\ (lpc.step = "returned" /\ lpc.result = "Ok") => lpc.copied

\* A read of three pages ended by the failed check of its second page.
C28_Witness ==
    /\ LpcRequested
    /\ lpc.result = "Other"
    /\ Len(LpcCommands) = 2
    /\ Cardinality(LpcOverlapping) = 3

(***************************************************************************)
(* Claims about the TLV sequence and about from_flash (SpecImage).         *)
(***************************************************************************)
Iterated == pc = "iterated"

\* The bytes the entries of the region take up, TlvInfo included.
RegionSize ==
    TLV_ENTRY_SIZE + SumOf([k \in 1 .. Len(Entries) |-> TLV_ENTRY_SIZE + Entries[k].len])

\* C24: over a readable TLV region whose entries e1..en fill it exactly
\* (4 + sum of (4 + len_i) = TlvInfo.len), at any tlv_base, the iterator
\* yields exactly these n entries in order, each with its kind, its payload
\* length and its payload position, and then ends.
C24_IteratorYieldsEntries ==
    ( /\ Iterated
      /\ RegionSize = image.tlv_size
      /\ Readable(image.tlv_base, image.tlv_size) )
    => /\ iter.tag = "None"
       /\ iter.entries = Entries

\* The k-th entry, header and payload, ends behind the declared region:
\* cursor + 4 + len > TlvInfo.len.
Overrunning(k) ==
    (Entries[k].pos - image.tlv_base) + Entries[k].len > image.tlv_size

\* C25: validate returns InvalidImage for an image whose SHA-256 entry
\* extends past the end of the declared TLV region.
C25_OverrunRejected ==
    (Validated /\ \E k \in ShaEntries : Overrunning(k)) =>
        verdict.status.result = "InvalidImage"

\* tlv_base as the header on the flash gives it.
FlashTlvBase == U16(data, 8) + U16(data, 12)

\* C26: from_flash issues at most the read of the 32-byte header at 0 and the
\* read of the 4-byte TlvInfo at tlv_base, and when both succeed with the
\* right magics it returns an image whose full_image_size is
\* hdr_size + img_size + TlvInfo.len, whatever the TLV entries are.
C26_TwoReads ==
    pc = "parsed" =>
        /\ Len(image.reads) <= 2
        /\ \A k \in 1 .. Len(image.reads) :
              /\ k = 1 => (image.reads[k].offset = 0 /\ image.reads[k].len = HEADER_SIZE)
              /\ k = 2 => (image.reads[k].offset = FlashTlvBase
                             /\ image.reads[k].len = TLV_ENTRY_SIZE)
        /\ ( /\ Readable(0, HEADER_SIZE)
             /\ Bytes(0, 4) = IMAGE_MAGIC
             /\ U16(data, 14) = 0
             /\ Readable(FlashTlvBase, TLV_ENTRY_SIZE)
             /\ U16(Bytes(FlashTlvBase, TLV_ENTRY_SIZE), 0) = TLV_INFO_MAGIC )
           => /\ image.status.result = "Ok"
              /\ full_image_size(image)
                    = FlashTlvBase + U16(Bytes(FlashTlvBase, TLV_ENTRY_SIZE), 2)

(***************************************************************************)
(* Claims about the flag cells (SpecStatus).                               *)
(***************************************************************************)
\* The write units that hold a byte of [from, to).
WriteUnits(from, to, ws) == {u \in (from \div ws) .. ((to - 1) \div ws) : from < to}

\* C27: a descriptor has flag slots if and only if the style of the slot is
\* OverWrite.  The three slots are then multiples of write_size, move_done
\* one write unit above copy_done and two above image_ok; the move_done cell
\* ends at or below tail_pos rounded down to a write boundary; and the write
\* units of the three cells, of the tail and of the inline hashes are
\* pairwise disjoint.
C27_FlagCells ==
    LaidOut =>
       LET l == slots.layout
           ws == l.write_size
           unit(i) == WriteUnits(l.flags[i], l.flags[i] + ws, ws)
           tail == WriteUnits(l.tail_pos, l.tail_pos + STATUS_TAIL_SIZE, ws)
           hashes == WriteUnits(SectorBase(l), SectorBase(l) + 4 * l.inline_hashes, ws)
       IN  /\ (l.flags # <<>>) <=> (status_style(slots.main) = "OverWrite")
           /\ l.flags # <<>> =>
                 /\ Len(l.flags) = 3
                 /\ \A i \in 1 .. 3 : l.flags[i] % ws = 0
                 /\ l.flags[1] = l.flags[3] + 2 * ws
                 /\ l.flags[2] = l.flags[3] + ws
                 /\ l.flags[1] + ws <= l.tail_pos - (l.tail_pos % ws)
                 /\ \A i \in 1 .. 3 :
                       /\ Cardinality(unit(i)) = 1
                       /\ unit(i) \cap tail = {}
                       /\ unit(i) \cap hashes = {}
                       /\ \A j \in 1 .. 3 : i # j => unit(i) \cap unit(j) = {}

\* An OverWrite descriptor whose tail does not start at a write boundary,
\* with inline hashes below the flags.
C27_Witness ==
    /\ LaidOut
    /\ slots.layout.flags # <<>>
    /\ slots.layout.tail_pos % slots.layout.write_size # 0
    /\ slots.layout.inline_hashes > 0

(***************************************************************************)
(* Claims about the page states of SimFlash (Spec).                        *)
(***************************************************************************)
\* The call that was just made returned Ok and its byte range [from, to)
\* holds a byte of page p (an index into page_state).
Covered(p, from, to) ==
    /\ last'.result = "Ok"
    /\ (p - 1) * write_size < to
    /\ from < p * write_size

\* The step from page_state[p] to page_state'[p] is one the page state
\* machine allows: a successful erase that covers the page, to Erased, or a
\* successful write that covers the page, from Erased to Written.
PageStep(p) ==
    \/ /\ page_state'[p] = "Erased"
       /\ last'.op = "erase"
       /\ Covered(p, last'.a, last'.b)
    \/ /\ page_state[p] = "Erased"
       /\ page_state'[p] = "Written"
       /\ last'.op = "write"
       /\ Covered(p, last'.a, last'.a + last'.b)

\* C29: a page changes state only by a successful erase that covers it (to
\* Erased) or by a successful write that covers it (from Erased to Written);
\* reads and failed calls change no page state, no page returns to Unknown,
\* and the number of pages times write_size stays the capacity.
C29_PageStateMachine ==
    [][ /\ \A p \in 1 .. Len(page_state) :
              page_state'[p] # page_state[p] => PageStep(p)
        /\ Len(page_state') = Len(page_state)
        /\ Len(page_state') * write_size' = Len(data')
        /\ Len(data') = Len(data) ]_vars

(***************************************************************************)
(* Claims about the borrows of the flash cell (SpecImage).                 *)
(***************************************************************************)
\* The number of borrows the operations made so far are to have taken: one
\* per read they issued, and one for get_image_base.
BorrowsDue ==
    Len(image.reads)
      + (IF pc = "validated" THEN Len(verdict.reads) ELSE 0)
      + (IF pc = "revalidated" THEN 2 * Len(verdict.reads) ELSE 0)
      + (IF pc \in {"iterated", "based"} THEN Len(iter.reads) ELSE 0)
      + (IF pc = "based" THEN 1 ELSE 0)

====
